---- MODULE Spec2Model ----
(***************************************************************************)
(* collectd-more-redis: the INFO poller of src/main.go.                   *)
(*                                                                         *)
(* A Go string is modelled as the sequence of its characters, each a       *)
(* one-character TLA+ string, so that prefix tests, splits, trimming and   *)
(* lower-casing are computed character by character as the strings        *)
(* package computes them.  The empty string is << >>.                      *)
(***************************************************************************)
EXTENDS Integers, Sequences, FiniteSets

VARIABLES
    pc,        \* position of main: "fetch", "scan", "returned", "emit", "exit"
    cycle,     \* number of the current iteration of main's for loop
    blob,      \* the INFO reply of this cycle, as the lines bufio.Scanner cuts it into
    pos,       \* index in blob of the line the next scanner.Scan() looks at
    s,         \* fetchMetrics' local s: the current section name
    ms,        \* fetchMetrics' local ms, then main's ms
    err,       \* the error fetchMetrics returns
    scanErr,   \* what scanner.Err() would answer (the code never asks)
    scanned,   \* lines handed to the loop body in this cycle
    out,       \* the PUTVAL lines written to stdout in this cycle
    j,         \* index in ms of the record main's range loop is at
    exitCode,  \* the status given to os.Exit, -1 while the process runs
    pSection,  \* a direct call parseLine(pSection, pLine) ...
    pLine,
    pRes,      \* ... and what it returned
    pDone

vars == <<pc, cycle, blob, pos, s, ms, err, scanErr, scanned, out, j, exitCode,
          pSection, pLine, pRes, pDone>>

mainVars == <<pc, cycle, blob, pos, s, ms, err, scanErr, scanned, out, j, exitCode>>
parseVars == <<pSection, pLine, pRes, pDone>>

-----------------------------------------------------------------------------
(* Bounds of the model.                                                    *)

\* longest free-form line handed to parseLine in SpecParse
MaxLen == 4

\* longest tail put after a cmdstat stem in SpecParse
MaxTail == 3

\* most lines in one INFO reply
MaxLines == 3

\* poll cycles main runs before the model stops following it
MaxCycles == 2

\* most empty lines inserted at one place when comparing scans
MaxBlank == 2

-----------------------------------------------------------------------------
(* String literals of the source.                                          *)

Empty == << >>
Hash == <<"#">>
Colon == <<":">>
Comma == <<",">>
Equals == <<"=">>
Slash == <<"/">>
cmdstat_ == <<"c", "m", "d", "s", "t", "a", "t", "_">>
db == <<"d", "b">>
redisSlash == <<"r", "e", "d", "i", "s", "/">>

Nil == "nil"

-----------------------------------------------------------------------------
(* The functions of package strings that main.go calls.                    *)

HasPrefix(str, p) ==
    /\ Len(str) >= Len(p)
    /\ SubSeq(str, 1, Len(p)) = p

TrimPrefix(str, p) ==
    IF HasPrefix(str, p) THEN SubSeq(str, Len(p) + 1, Len(str)) ELSE str

\* strings.Index for a one-character separator: the first position, 0 if none
Index(str, sep) ==
    LET at == {i \in 1..Len(str) : <<str[i]>> = sep}
    IN  IF at = {} THEN 0 ELSE CHOOSE i \in at : \A k \in at : i <= k

RECURSIVE SplitN(_, _, _)
SplitN(str, sep, n) ==
    LET i == Index(str, sep)
    IN  IF n = 1 \/ i = 0
        THEN <<str>>
        ELSE <<SubSeq(str, 1, i - 1)>>
             \o SplitN(SubSeq(str, i + 1, Len(str)), sep, n - 1)

RECURSIVE Split(_, _)
Split(str, sep) ==
    LET i == Index(str, sep)
    IN  IF i = 0
        THEN <<str>>
        ELSE <<SubSeq(str, 1, i - 1)>> \o Split(SubSeq(str, i + 1, Len(str)), sep)

IsSpace(c) == c \in {" ", "\t", "\r"}

RECURSIVE TrimLeft(_)
TrimLeft(str) ==
    IF Len(str) > 0 /\ IsSpace(str[1]) THEN TrimLeft(Tail(str)) ELSE str

RECURSIVE TrimRight(_)
TrimRight(str) ==
    IF Len(str) > 0 /\ IsSpace(str[Len(str)])
    THEN TrimRight(SubSeq(str, 1, Len(str) - 1))
    ELSE str

TrimSpace(str) == TrimRight(TrimLeft(str))

UpperCase == <<"A", "B", "C", "D", "E", "F", "G", "H", "I", "J", "K", "L", "M",
               "N", "O", "P", "Q", "R", "S", "T", "U", "V", "W", "X", "Y", "Z">>
LowerCase == <<"a", "b", "c", "d", "e", "f", "g", "h", "i", "j", "k", "l", "m",
               "n", "o", "p", "q", "r", "s", "t", "u", "v", "w", "x", "y", "z">>

ToLowerChar(c) ==
    IF \E i \in 1..Len(UpperCase) : UpperCase[i] = c
    THEN LowerCase[CHOOSE i \in 1..Len(UpperCase) : UpperCase[i] = c]
    ELSE c

ToLower(str) == [i \in 1..Len(str) |-> ToLowerChar(str[i])]

-----------------------------------------------------------------------------
(* The parser: parseKVLine and parseLine.                                  *)

Metric(section, prefix, key, value) ==
    [Section |-> section, Prefix |-> prefix, Key |-> key, Value |-> value]

\* one iteration of parseKVLine's loop: the record of a pair, or nothing
kvPair(section, prefix, pair) ==
    LET tupl == SplitN(pair, Equals, 2)
    IN  IF Len(tupl) # 2
        THEN << >>
        ELSE <<Metric(section, prefix, tupl[1], tupl[2])>>

\* parseKVLine with break where the source has continue
RECURSIVE kvLoopBreak(_, _, _)
kvLoopBreak(section, prefix, parts) ==
    IF parts = << >> \/ kvPair(section, prefix, Head(parts)) = << >>
    THEN << >>
    ELSE kvPair(section, prefix, Head(parts))
         \o kvLoopBreak(section, prefix, Tail(parts))

RECURSIVE kvLoop(_, _, _)
kvLoop(section, prefix, parts) ==
    IF parts = << >>
    THEN << >>
    ELSE kvPair(section, prefix, Head(parts)) \o kvLoop(section, prefix, Tail(parts))

parseKVLine(section, prefix, v) == kvLoop(section, prefix, Split(v, Comma))

\* parseLine with strings.Split where the source has strings.SplitN(.., 2)
parseLineSplitAll(section, line) ==
    IF HasPrefix(line, Hash)
    THEN [ms |-> << >>, err |-> Nil]
    ELSE LET parts == Split(line, Colon) IN
         IF Len(parts) # 2
         THEN [ms |-> << >>, err |-> "expected 2 parts"]
         ELSE IF HasPrefix(parts[1], cmdstat_) \/ HasPrefix(parts[1], db)
              THEN [ms |-> parseKVLine(section, parts[1], parts[2]), err |-> Nil]
              ELSE [ms |-> <<Metric(section, Empty, parts[1], parts[2])>>,
                    err |-> Nil]

\* parseLine with k == "db" where the source has strings.HasPrefix(k, "db")
parseLineExactDb(section, line) ==
    IF HasPrefix(line, Hash)
    THEN [ms |-> << >>, err |-> Nil]
    ELSE LET parts == SplitN(line, Colon, 2) IN
         IF Len(parts) # 2
         THEN [ms |-> << >>, err |-> "expected 2 parts"]
         ELSE IF HasPrefix(parts[1], cmdstat_) \/ parts[1] = db
              THEN [ms |-> parseKVLine(section, parts[1], parts[2]), err |-> Nil]
              ELSE [ms |-> <<Metric(section, Empty, parts[1], parts[2])>>,
                    err |-> Nil]

parseLine(section, line) ==
    IF HasPrefix(line, Hash)
    THEN [ms |-> << >>, err |-> Nil]
    ELSE LET parts == SplitN(line, Colon, 2) IN
         IF Len(parts) # 2
         THEN [ms |-> << >>, err |-> "expected 2 parts"]
         ELSE IF HasPrefix(parts[1], cmdstat_) \/ HasPrefix(parts[1], db)
              THEN [ms |-> parseKVLine(section, parts[1], parts[2]), err |-> Nil]
              ELSE [ms |-> <<Metric(section, Empty, parts[1], parts[2])>>,
                    err |-> Nil]

-----------------------------------------------------------------------------
(* The scanner: the body of fetchMetrics' loop, and the loop.              *)

\* A line longer than bufio.Scanner's token buffer.  The scanner never hands
\* it to the loop body: Scan() answers false there and Err() is ErrTooLong.
TooLong == <<"<line longer than the scanner's buffer>">>

\* the loop body without strings.ToLower
scanLineNoLower(st, line) ==
    IF Len(line) = 0
    THEN st
    ELSE IF HasPrefix(line, Hash)
         THEN [s |-> TrimSpace(TrimPrefix(line, Hash)), ms |-> st.ms]
         ELSE [s |-> st.s, ms |-> st.ms \o parseLine(st.s, line).ms]

\* the loop body with an empty line ending the section
scanLineBlankResets(st, line) ==
    IF Len(line) = 0
    THEN [s |-> Empty, ms |-> st.ms]
    ELSE IF HasPrefix(line, Hash)
         THEN [s |-> ToLower(TrimSpace(TrimPrefix(line, Hash))), ms |-> st.ms]
         ELSE [s |-> st.s, ms |-> st.ms \o parseLine(st.s, line).ms]

\* one iteration of the for scanner.Scan() loop on a line the scanner delivered
scanLine(st, line) ==
    IF Len(line) = 0
    THEN st
    ELSE IF HasPrefix(line, Hash)
         THEN [s |-> ToLower(TrimSpace(TrimPrefix(line, Hash))), ms |-> st.ms]
         ELSE [s |-> st.s, ms |-> st.ms \o parseLine(st.s, line).ms]

RECURSIVE scanLoop(_, _)
scanLoop(st, text) ==
    IF text = << >> \/ Head(text) = TooLong
    THEN st
    ELSE scanLoop(scanLine(st, Head(text)), Tail(text))

\* what fetchMetrics leaves in s and ms when the reply is text
scanAll(text) == scanLoop([s |-> Empty, ms |-> << >>], text)

-----------------------------------------------------------------------------
(* The emission loop of main.                                              *)

DEFAULT_INTERVAL == 10

DigitChars == <<"0", "1", "2", "3", "4", "5", "6", "7", "8", "9">>

IsDigit(c) == \E i \in 1..Len(DigitChars) : DigitChars[i] = c

DigitVal(c) == (CHOOSE i \in 1..Len(DigitChars) : DigitChars[i] = c) - 1

RECURSIVE Atoi(_)
Atoi(str) ==
    IF str = << >>
    THEN 0
    ELSE 10 * Atoi(SubSeq(str, 1, Len(str) - 1)) + DigitVal(str[Len(str)])

\* strconv.ParseFloat on the decimal forms [+-]digits[.digits]; val is the
\* number in millionths, the precision the %f verb prints.  The exponent,
\* hexadecimal, Inf and NaN forms do not occur among the modelled values.
ParseFloat(v) ==
    LET neg == Len(v) > 0 /\ v[1] = "-"
        body == IF Len(v) > 0 /\ v[1] \in {"+", "-"} THEN Tail(v) ELSE v
        parts == SplitN(body, <<".">>, 2)
        ip == parts[1]
        fp == IF Len(parts) = 2 THEN parts[2] ELSE Empty
        ok == /\ \A i \in 1..Len(ip) : IsDigit(ip[i])
              /\ \A i \in 1..Len(fp) : IsDigit(fp[i])
              /\ Len(ip) + Len(fp) > 0
        six == [i \in 1..6 |-> IF i <= Len(fp) THEN fp[i] ELSE "0"]
        up == IF Len(fp) > 6 /\ DigitVal(fp[7]) >= 5 THEN 1 ELSE 0
        abs == Atoi(ip) * 1000000 + Atoi(six) + up
    IN  IF ok
        THEN [ok |-> TRUE, val |-> IF neg THEN 0 - abs ELSE abs]
        ELSE [ok |-> FALSE, val |-> 0]

\* the line fmt.Printf writes for record m read at time t with value f
putval(m, t, f) ==
    [ident |-> redisSlash \o m.Section \o Slash
               \o (IF m.Prefix # Empty THEN m.Prefix \o Slash \o m.Key ELSE m.Key),
     interval |-> DEFAULT_INTERVAL * 1000000,
     t |-> t,
     f |-> f]

\* one iteration of for _, m := range ms: stdout after it
emitRecord(stdout, m, t) ==
    IF ~ParseFloat(m.Value).ok
    THEN stdout
    ELSE Append(stdout, putval(m, t, ParseFloat(m.Value).val))

-----------------------------------------------------------------------------
(* Inputs of the poll loop: the INFO replies.                              *)

HeaderServer == <<"#", " ", "S", "e", "r", "v", "e", "r">>
HeaderClients == <<"#", "C", "l", "i", "e", "n", "t", "s", " ">>
LineConnected == <<"c", "o", "n", "n", "e", "c", "t", "e", "d", ":", "4">>
LineGarbage == <<"g", "a", "r", "b", "a", "g", "e">>
LineColons == <<"a", ":", "1", ":", "2">>
LineDb0 == <<"d", "b", "0", ":", "k", "e", "y", "s", "=", "1", ",", "b", "a", "d", ",",
             "e", "x", "p", "i", "r", "e", "s", "=", "0">>
LineCmdstat == <<"c", "m", "d", "s", "t", "a", "t", "_", "g", "e", "t", ":", " ",
                 "c", "a", "l", "l", "s", "=", "3", ",", "b", "a", "d", "p", "a", "i", "r", ",",
                 "u", "s", "e", "c", "=", "5">>

ScanItems ==
    { Empty, HeaderServer, HeaderClients, LineConnected, LineGarbage,
      LineColons, LineDb0, LineCmdstat, TooLong }

Blobs == UNION {[1..n -> ScanItems] : n \in 0..MaxLines}

-----------------------------------------------------------------------------
(* Inputs of the direct calls of parseLine.                                *)

ParseAlphabet == {"#", ":", "=", ",", "d", "b", "1"}

Strings(alphabet, n) == UNION {[1..k -> alphabet] : k \in 0..n}

CmdNames == {<<"g", "e", "t">>, <<"X">>, << >>}

\* the value of the cmdstat line as main.go's comment writes it, and as Redis does
SpacedPairs == <<":", " ", "a", "=", "1", ",", "b", "=", "2">>
TightPairs == <<":", "a", "=", "1", ",", "b", "=", "2">>

ParseLines ==
    Strings(ParseAlphabet, MaxLen)
    \cup {stem \o tail : stem \in {cmdstat_, SubSeq(cmdstat_, 1, 7), db},
                         tail \in Strings(ParseAlphabet, MaxTail)}
    \cup {cmdstat_ \o x \o v : x \in CmdNames, v \in {SpacedPairs, TightPairs}}

ParseSections == {Empty, <<"s", "e", "r", "v", "e", "r">>}

-----------------------------------------------------------------------------

MainIdle ==
    /\ pc = "fetch"
    /\ cycle = 1
    /\ blob = << >>
    /\ pos = 1
    /\ s = Empty
    /\ ms = << >>
    /\ err = Nil
    /\ scanErr = Nil
    /\ scanned = 0
    /\ out = << >>
    /\ j = 1
    /\ exitCode = -1

ParseIdle ==
    /\ pSection = Empty
    /\ pLine = Empty
    /\ pRes = [ms |-> << >>, err |-> Nil]
    /\ pDone = FALSE

InitParse ==
    /\ MainIdle
    /\ pSection \in ParseSections
    /\ pLine \in ParseLines
    /\ pRes = [ms |-> << >>, err |-> Nil]
    /\ pDone = FALSE

CallParseLine ==
    /\ ~pDone
    /\ pRes' = parseLine(pSection, pLine)
    /\ pDone' = TRUE
    /\ UNCHANGED <<pSection, pLine>>
    /\ UNCHANGED mainVars

NextParse == CallParseLine

SpecParse == InitParse /\ [][NextParse]_vars

-----------------------------------------------------------------------------
(* The poll loop: main calling fetchMetrics, then emitting.                *)

Init == MainIdle /\ ParseIdle

\* conn.Do("INFO", "ALL") or redis.Bytes fails: fetchMetrics returns at once
FetchFail ==
    /\ pc = "fetch"
    /\ \E e \in {"do failed", "reply is not bytes"} : err' = e
    /\ pc' = "returned"
    /\ s' = Empty
    /\ ms' = << >>
    /\ blob' = << >>
    /\ pos' = 1
    /\ scanErr' = Nil
    /\ scanned' = 0
    /\ out' = << >>
    /\ j' = 1
    /\ UNCHANGED <<cycle, exitCode>>
    /\ UNCHANGED parseVars

\* the reply arrives: fetchMetrics starts to scan it
FetchOk ==
    /\ pc = "fetch"
    /\ blob' \in Blobs
    /\ pc' = "scan"
    /\ s' = Empty
    /\ ms' = << >>
    /\ pos' = 1
    /\ err' = Nil
    /\ scanErr' = Nil
    /\ scanned' = 0
    /\ out' = << >>
    /\ j' = 1
    /\ UNCHANGED <<cycle, exitCode>>
    /\ UNCHANGED parseVars

\* the loop body returning parseLine's error where the source drops it
ScanLineAbort ==
    /\ pc = "scan"
    /\ pos <= Len(blob)
    /\ blob[pos] # TooLong
    /\ IF /\ Len(blob[pos]) > 0
          /\ ~HasPrefix(blob[pos], Hash)
          /\ parseLine(s, blob[pos]).err # Nil
       THEN /\ err' = parseLine(s, blob[pos]).err
            /\ pc' = "returned"
            /\ UNCHANGED <<s, ms>>
       ELSE /\ s' = scanLine([s |-> s, ms |-> ms], blob[pos]).s
            /\ ms' = scanLine([s |-> s, ms |-> ms], blob[pos]).ms
            /\ UNCHANGED <<pc, err>>
    /\ pos' = pos + 1
    /\ scanned' = scanned + 1
    /\ UNCHANGED <<cycle, blob, scanErr, out, j, exitCode>>
    /\ UNCHANGED parseVars

\* scanner.Scan() delivers the next line and the loop body runs on it
ScanLine ==
    /\ pc = "scan"
    /\ pos <= Len(blob)
    /\ blob[pos] # TooLong
    /\ s' = scanLine([s |-> s, ms |-> ms], blob[pos]).s
    /\ ms' = scanLine([s |-> s, ms |-> ms], blob[pos]).ms
    /\ pos' = pos + 1
    /\ scanned' = scanned + 1
    /\ UNCHANGED <<pc, cycle, blob, err, scanErr, out, j, exitCode>>
    /\ UNCHANGED parseVars

\* scanner.Scan() answers false, at the end of the text or on a line it cannot
\* hold; fetchMetrics returns ms, nil without asking scanner.Err()
ScanStop ==
    /\ pc = "scan"
    /\ IF pos <= Len(blob) THEN blob[pos] = TooLong ELSE TRUE
    /\ scanErr' = IF pos <= Len(blob) THEN "bufio.ErrTooLong" ELSE Nil
    /\ err' = Nil
    /\ pc' = "returned"
    /\ UNCHANGED <<cycle, blob, pos, s, ms, scanned, out, j, exitCode>>
    /\ UNCHANGED parseVars

\* main printing the error and going on where the source calls os.Exit(1)
ExitOnErrorGoesOn ==
    /\ pc = "returned"
    /\ err # Nil
    /\ pc' = "emit"
    /\ j' = 1
    /\ UNCHANGED <<cycle, blob, pos, s, ms, err, scanErr, scanned, out, exitCode>>
    /\ UNCHANGED parseVars

\* main: err != nil after fetchMetrics, os.Exit(1)
ExitOnError ==
    /\ pc = "returned"
    /\ err # Nil
    /\ exitCode' = 1
    /\ pc' = "exit"
    /\ UNCHANGED <<cycle, blob, pos, s, ms, err, scanErr, scanned, out, j>>
    /\ UNCHANGED parseVars

BeginEmit ==
    /\ pc = "returned"
    /\ err = Nil
    /\ pc' = "emit"
    /\ j' = 1
    /\ UNCHANGED <<cycle, blob, pos, s, ms, err, scanErr, scanned, out, exitCode>>
    /\ UNCHANGED parseVars

\* the range loop with break where the source has continue
EmitRecordBreak ==
    /\ pc = "emit"
    /\ j <= Len(ms)
    /\ out' = emitRecord(out, ms[j], cycle)
    /\ j' = IF ParseFloat(ms[j].Value).ok THEN j + 1 ELSE Len(ms) + 1
    /\ UNCHANGED <<pc, cycle, blob, pos, s, ms, err, scanErr, scanned, exitCode>>
    /\ UNCHANGED parseVars

\* one iteration of for _, m := range ms; the time t read at the top of the
\* iteration of main's loop is named by the number of that iteration
EmitRecord ==
    /\ pc = "emit"
    /\ j <= Len(ms)
    /\ out' = emitRecord(out, ms[j], cycle)
    /\ j' = j + 1
    /\ UNCHANGED <<pc, cycle, blob, pos, s, ms, err, scanErr, scanned, exitCode>>
    /\ UNCHANGED parseVars

\* time.Sleep(interval), then the next iteration of main's loop; the locals of
\* the finished iteration (ms, and fetchMetrics' long gone) are dropped
Sleep ==
    /\ pc = "emit"
    /\ j > Len(ms)
    /\ cycle < MaxCycles
    /\ cycle' = cycle + 1
    /\ pc' = "fetch"
    /\ blob' = << >>
    /\ pos' = 1
    /\ s' = Empty
    /\ ms' = << >>
    /\ scanErr' = Nil
    /\ scanned' = 0
    /\ out' = << >>
    /\ j' = 1
    /\ UNCHANGED <<err, exitCode>>
    /\ UNCHANGED parseVars

Next ==
    \/ FetchFail
    \/ FetchOk
    \/ ScanLine
    \/ ScanStop
    \/ ExitOnError
    \/ BeginEmit
    \/ EmitRecord
    \/ Sleep

Spec == Init /\ [][Next]_vars

-----------------------------------------------------------------------------
(* What the claims speak of, stated on the text itself.                    *)

ColonCount(line) == Cardinality({i \in 1..Len(line) : line[i] = ":"})

StartsWithHash(line) == Len(line) > 0 /\ line[1] = "#"

\* the text before the first colon, and the text after it
KeyText(line) ==
    LET i == CHOOSE i \in 1..Len(line) :
                 line[i] = ":" /\ ColonCount(SubSeq(line, 1, i - 1)) = 0
    IN  SubSeq(line, 1, i - 1)

RestText(line) == SubSeq(line, Len(KeyText(line)) + 2, Len(line))

StartsCmdstat(key) == Len(key) >= 8 /\ \A i \in 1..8 : key[i] = cmdstat_[i]

StartsDb(key) == Len(key) >= 2 /\ key[1] = "d" /\ key[2] = "b"

Expandable(key) == StartsCmdstat(key) \/ StartsDb(key)

MaxOf(S) == CHOOSE x \in S : \A y \in S : y <= x

MinOf(S) == CHOOSE x \in S : \A y \in S : x <= y

\* the scanner is about to hand blob[pos] to the loop body
AtLine == pc = "scan" /\ pos <= Len(blob) /\ blob[pos] # TooLong

-----------------------------------------------------------------------------
(* C1 *)

\* the step on line rejects it: parseLine fails with no records, nothing is
\* appended, and the scan goes on to the next line
C1_Rejected(line) ==
    /\ parseLine(s, line).err # Nil
    /\ parseLine(s, line).ms = << >>
    /\ ms' = ms
    /\ s' = s
    /\ pc' = "scan"
    /\ pos' = pos + 1

\* C1 as stated: every line that does not begin with '#' and has zero colons or
\* more than one colon makes parseLine fail, adds no record and leaves the scan
\* running.
C1_ZeroOrManyColonsRejected ==
    [][(AtLine /\ ~StartsWithHash(blob[pos]) /\ ColonCount(blob[pos]) # 1)
           => C1_Rejected(blob[pos])]_vars

\* C1 amended: every line that does not begin with '#' and has no colon makes
\* parseLine fail, adds no record and leaves the scan running.
C1_NoColonRejected ==
    [][(AtLine /\ ~StartsWithHash(blob[pos]) /\ ColonCount(blob[pos]) = 0)
           => C1_Rejected(blob[pos])]_vars

C1_Witness ==
    /\ pc = "scan"
    /\ pos = 3
    /\ Len(blob) >= 2
    /\ blob[1] = LineGarbage
    /\ blob[2] = LineConnected
    /\ ms = <<Metric(Empty, Empty, KeyText(LineConnected), RestText(LineConnected))>>

-----------------------------------------------------------------------------
(* C2 *)

C2_Expected == <<Metric(pSection, Empty, KeyText(pLine), RestText(pLine))>>

\* C2 as stated: every line with at least one colon whose key starts with neither
\* cmdstat_ nor db yields exactly one record: the given section, empty Prefix,
\* the text before the first colon as Key, all that follows it as Value.
C2_PlainLineOneRecord ==
    (pDone /\ ColonCount(pLine) >= 1 /\ ~Expandable(KeyText(pLine)))
        => (pRes.err = Nil /\ pRes.ms = C2_Expected)

\* C2 amended: the same of every such line that does not begin with '#'.
C2_PlainDataLineOneRecord ==
    (pDone /\ ~StartsWithHash(pLine) /\ ColonCount(pLine) >= 1
           /\ ~Expandable(KeyText(pLine)))
        => (pRes.err = Nil /\ pRes.ms = C2_Expected)

C2_Witness ==
    /\ pDone
    /\ ~StartsWithHash(pLine)
    /\ ColonCount(pLine) >= 2
    /\ ~Expandable(KeyText(pLine))
    /\ Len(pRes.ms) = 1
    /\ ColonCount(pRes.ms[1].Value) = ColonCount(pLine) - 1

-----------------------------------------------------------------------------
(* C3 *)

\* C3: the line cmdstat_X: a=1,b=2 yields exactly the records (key a, value 1,
\* prefix cmdstat_X) and (key b, value 2, prefix cmdstat_X), in this order.
C3_CmdstatLineTwoRecords ==
    \A x \in CmdNames :
        (pDone /\ pLine = cmdstat_ \o x \o SpacedPairs)
            => pRes.ms = <<Metric(pSection, cmdstat_ \o x, <<"a">>, <<"1">>),
                           Metric(pSection, cmdstat_ \o x, <<"b">>, <<"2">>)>>

-----------------------------------------------------------------------------
(* C9 *)

\* C9: every record parseLine produces has a non-empty Prefix exactly when the
\* key of its line starts with cmdstat_ or with db, and the Prefix is then the
\* whole key.
C9_PrefixIffExpandable ==
    pDone =>
        \A i \in 1..Len(pRes.ms) :
            /\ (pRes.ms[i].Prefix # Empty) <=> Expandable(KeyText(pLine))
            /\ Expandable(KeyText(pLine)) => pRes.ms[i].Prefix = KeyText(pLine)

C9_Witness ==
    /\ pDone
    /\ ColonCount(pLine) >= 1
    /\ StartsDb(KeyText(pLine))
    /\ Len(KeyText(pLine)) = 3
    /\ ~IsDigit(KeyText(pLine)[3])
    /\ Len(pRes.ms) >= 1
    /\ pRes.ms[1].Prefix = KeyText(pLine)

-----------------------------------------------------------------------------
(* C4 *)

\* the section a header line names: what follows '#', without the white space
\* around it, in lower case
SectionLabel(h) ==
    LET rest == SubSeq(h, 2, Len(h))
        NS == {k \in 1..Len(rest) : ~IsSpace(rest[k])}
    IN  IF NS = {}
        THEN Empty
        ELSE [k \in 1..(MaxOf(NS) - MinOf(NS) + 1) |->
                 ToLowerChar(rest[MinOf(NS) + k - 1])]

HeadersBefore(text, i) == {k \in 1..(i - 1) : StartsWithHash(text[k])}

ExpectedSection(text, i) ==
    IF HeadersBefore(text, i) = {}
    THEN Empty
    ELSE SectionLabel(text[MaxOf(HeadersBefore(text, i))])

RecordsOf(line) ==
    IF line = Empty \/ StartsWithHash(line)
    THEN 0
    ELSE Len(parseLine(Empty, line).ms)

\* the sections of the records of lines i..n of text, in order
RECURSIVE ExpectedSections(_, _, _)
ExpectedSections(text, i, n) ==
    IF i > n
    THEN << >>
    ELSE [k \in 1..RecordsOf(text[i]) |-> ExpectedSection(text, i)]
         \o ExpectedSections(text, i + 1, n)

\* C4: in every pass each record's Section is the lower-cased, trimmed text after
\* the '#' of the last header line before the record's line in this pass, and
\* empty when this pass has seen no header yet.
C4_SectionIsLastHeader ==
    pc \in {"scan", "returned"} =>
        [k \in 1..Len(ms) |-> ms[k].Section] = ExpectedSections(blob, 1, pos - 1)

C4_Witness ==
    /\ cycle = 2
    /\ pc = "returned"
    /\ blob = <<LineConnected, HeaderServer, LineColons>>
    /\ Len(ms) = 2
    /\ ms[1].Section = Empty
    /\ ms[2].Section = <<"s", "e", "r", "v", "e", "r">>

-----------------------------------------------------------------------------
(* C5 *)

Malformed(line) ==
    /\ line # Empty
    /\ line # TooLong
    /\ ~StartsWithHash(line)
    /\ ColonCount(line) = 0

WellFormedPair(pair) == \E i \in 1..Len(pair) : pair[i] = "="

RECURSIVE JoinComma(_)
JoinComma(parts) ==
    IF parts = << >>
    THEN Empty
    ELSE IF Len(parts) = 1
         THEN parts[1]
         ELSE parts[1] \o Comma \o JoinComma(Tail(parts))

\* an expanded line without its malformed pairs; any other line as it is
CleanLine(line) ==
    IF line = TooLong \/ StartsWithHash(line) \/ ColonCount(line) = 0
    THEN line
    ELSE IF Expandable(KeyText(line))
         THEN KeyText(line) \o Colon
              \o JoinComma(SelectSeq(Split(RestText(line), Comma), WellFormedPair))
         ELSE line

WellFormedLine(line) == ~Malformed(line)

\* text without its malformed lines and malformed pairs
Clean(text) ==
    LET kept == SelectSeq(text, WellFormedLine)
    IN  [k \in 1..Len(kept) |-> CleanLine(kept[k])]

-----------------------------------------------------------------------------
(* C6 *)

FetchFailed == err \in {"do failed", "reply is not bytes"}

\* C6: fetchMetrics returns an error exactly when the fetch of the reply or the
\* iteration over its text failed.
C6_ErrorIffReadFailed ==
    pc = "returned" => ((err # Nil) <=> (FetchFailed \/ scanErr # Nil))

-----------------------------------------------------------------------------
(* C7 *)

Numeric(k) == ParseFloat(ms[k].Value).ok

\* the records among the first n whose Value is a number
NumericUpTo(n) == {k \in 1..n : Numeric(k)}

\* C7: the emission loop has written, for the records it has been through, one
\* PUTVAL line for each record whose Value is a number, in the records' order,
\* and nothing for the others; it leaves the loop only past the last record.
C7_OneLinePerNumericRecord ==
    pc = "emit" =>
        /\ Len(out) = Cardinality(NumericUpTo(j - 1))
        /\ \A k \in NumericUpTo(j - 1) :
              out[Cardinality(NumericUpTo(k))]
                  = putval(ms[k], cycle, ParseFloat(ms[k].Value).val)

C7_Witness ==
    /\ pc = "emit"
    /\ j = Len(ms) + 1
    /\ Len(ms) = 3
    /\ Numeric(1)
    /\ ~Numeric(2)
    /\ Numeric(3)
    /\ Len(out) = 2

-----------------------------------------------------------------------------
(* C8 *)

Blanks(n) == [i \in 1..n |-> Empty]

\* text with n empty lines put after its first k lines
InsertBlanks(text, k, n) ==
    SubSeq(text, 1, k) \o Blanks(n) \o SubSeq(text, k + 1, Len(text))

NotBlank(line) == line # Empty

\* C8: the scan of a text with empty lines inserted anywhere, or with all its
\* empty lines taken out, ends with the same records and the same section as
\* the scan of the text.
C8_EmptyLinesAreNoOps ==
    (pc = "returned" /\ err = Nil) =>
        /\ \A k \in 0..Len(blob) : \A n \in 1..MaxBlank :
              scanAll(InsertBlanks(blob, k, n)) = [s |-> s, ms |-> ms]
        /\ scanAll(SelectSeq(blob, NotBlank)) = [s |-> s, ms |-> ms]

C8_Witness ==
    /\ pc = "returned"
    /\ blob = <<HeaderServer, Empty, LineConnected>>
    /\ Len(ms) = 1
    /\ ms[1].Section = <<"s", "e", "r", "v", "e", "r">>

-----------------------------------------------------------------------------
(* C10 *)

\* C10: when the fetch fails no line has been scanned and no PUTVAL line written
\* in this cycle, the next step exits with status 1 writing none, and after the
\* exit nothing is fetched or written any more.
C10_FetchFailureStops ==
    [][/\ (pc = "returned" /\ err # Nil) =>
              /\ scanned = 0
              /\ ms = << >>
              /\ out = << >>
              /\ pc' = "exit"
              /\ exitCode' = 1
              /\ out' = << >>
              /\ scanned' = 0
       /\ pc = "exit" => FALSE]_vars

C10_Witness ==
    /\ pc = "exit"
    /\ exitCode = 1
    /\ cycle = 2
    /\ scanned = 0
    /\ out = << >>

====
